---- MODULE Spec2Model ----
(***************************************************************************)
(* The recording / transcription session controller and the transcript     *)
(* store of src/src/App.tsx, as a state machine.                           *)
(*                                                                         *)
(* React state and refs are variables.  Every event handler runs to        *)
(* completion (one action each); a handler that was created inside the     *)
(* selectedLang effect keeps the isRecording / selectedLang values of the  *)
(* render in which that effect ran, so those values are stored with the    *)
(* recognition instance.  The browser capabilities (microphone, audio      *)
(* graph, recognition engine, animation frames, localStorage, clock) are   *)
(* the environment: their events are actions with inputs drawn from small  *)
(* sets.                                                                   *)
(*                                                                         *)
(* Spec        the session controller under every interleaving of user     *)
(*             calls and browser events, with plain result events.         *)
(* SpecGranted Spec without platform failures after the microphone grant.  *)
(* SpecStore   the transcript store under every result event (any mix of   *)
(*             final and interim segments), from the start of a session.   *)
(* SpecAnyCode SpecGranted where handleLanguageChange is given any string. *)
(* SpecPage    the page from the moment it opens, with whatever            *)
(*             localStorage holds: the load, a session, scored result      *)
(*             events as the clock runs, clear and export.                 *)
(* SpecPageLive SpecPage where the mount effects do run.                   *)
(***************************************************************************)
EXTENDS Integers, Sequences, FiniteSets, TLC

\* ---------------------------------------------------------------- bounds
\* recognition instances constructed in one run (mount + language changes)
MaxInst == 2
\* startRecording calls in one run
MaxStarts == 2
\* records the store may hold
MaxStore == 3
\* result segments in one result event (from resultIndex on)
MaxSegs == 2
\* clock ticks in one run
MaxClock == 1
\* records the store may hold where the session controller is explored
MaxKept == 1

\* ------------------------------------------------------------- constants
\* `confidence || 0.8`, in hundredths
DefaultConfidence == 80
\* an alternative that carries no confidence score
Undefined == -1
\* toLocaleTimeString shows no fraction of a second
MsPerSecond == 1000

VARIABLES
    \* React state (useState)
    isRecording, transcriptions, currentTranscript, audioLevel, isSupported,
    selectedLang,
    \* refs (useRef); 0 is null / undefined
    mediaRecorderRef, recognitionRef, audioContextRef, analyserRef,
    animationFrameRef,
    \* browser objects
    recognitions, recorders, streams, contexts, frames, calls, storage, now,
    \* the component's life cycle, the last toast and the files the last
    \* handler offered for download
    mounted, notice, downloads,
    \* history: the last handler that ran, what held when it began and the
    \* segments of the result event it was given
    lastOp, lastId, pre, teardown, baseLen, finalBatches, lastBatch

progVars == <<isRecording, transcriptions, currentTranscript, audioLevel,
              isSupported, selectedLang, mediaRecorderRef, recognitionRef,
              audioContextRef, analyserRef, animationFrameRef, recognitions,
              recorders, streams, contexts, frames, calls, storage, now,
              mounted, notice, downloads>>

histVars == <<lastOp, lastId, pre, teardown, baseLen, finalBatches, lastBatch>>

vars == <<progVars, histVars>>

\* ------------------------------------------------------------ value sets
supportedLanguages == {"en-US", "es-ES"}

\* handleLanguageChange takes a string: the listed codes and one that is not
\* listed
LangCodes == supportedLanguages \cup {"xx-XX"}

Insts == 1..MaxInst
Starts == 1..MaxStarts
\* the byte average updateLevel may compute: silence and full scale; the
\* audio level is kept in units of 1/255
Samples == {0, 255}

\* the id of a frame request that has fired or was cancelled
Stale == -1

Transcripts == {<< >>, <<" ", "a">>}
Confidences == {Undefined, 0, 90}

\* one result segment: event.results[i][0].transcript / .confidence and
\* event.results[i].isFinal
Segments == [transcript : Transcripts, isFinal : BOOLEAN, confidence : Confidences]

\* the segments of one result event, from event.resultIndex on
\* (onresult reads the confidence of the last segment only)
Batches ==
    {b \in UNION {[1..n -> Segments] : n \in 0..MaxSegs} :
        \A k \in 1..(Len(b) - 1) : b[k].confidence = Undefined}

\* result events whose alternatives carry no confidence score
TextBatches ==
    {b \in Batches : \A k \in 1..Len(b) : b[k].confidence = Undefined}

\* result events of one segment, with and without a confidence score
ScoredBatches == {b \in Batches : Len(b) = 1}

\* one interim and one final single-segment event
PlainBatches ==
    {<<[transcript |-> <<" ", "a">>, isFinal |-> f, confidence |-> Undefined]>> :
        f \in BOOLEAN}

ErrorKinds == {"not-allowed", "language-not-supported", "no-speech", "network"}

\* what a pending getUserMedia / the rest of startRecording may do
Outcomes == {"ok", "denied", "unavailable", "ctxFail", "recorderFail",
             "recorderStartFail"}

\* ------------------------------------------------------- pure functions
Digit(d) ==
    CASE d = 0 -> "0" [] d = 1 -> "1" [] d = 2 -> "2" [] d = 3 -> "3"
      [] d = 4 -> "4" [] d = 5 -> "5" [] d = 6 -> "6" [] d = 7 -> "7"
      [] d = 8 -> "8" [] OTHER -> "9"

RECURSIVE NumToString(_)
NumToString(n) ==
    IF n < 10 THEN <<Digit(n)>> ELSE NumToString(n \div 10) \o <<Digit(n % 10)>>

RECURSIVE TrimStart(_)
TrimStart(s) ==
    IF s # << >> /\ Head(s) = " " THEN TrimStart(Tail(s)) ELSE s

RECURSIVE TrimEnd(_)
TrimEnd(s) ==
    IF s # << >> /\ s[Len(s)] = " " THEN TrimEnd(SubSeq(s, 1, Len(s) - 1)) ELSE s

Trim(s) == TrimEnd(TrimStart(s))

\* finalTranscript built as `finalTranscript += transcript`, without the ' '
RECURSIVE FinalTranscript_NoSeparator(_)
FinalTranscript_NoSeparator(batch) ==
    IF batch = << >> THEN << >>
    ELSE LET r == batch[Len(batch)]
             front == FinalTranscript_NoSeparator(SubSeq(batch, 1, Len(batch) - 1))
         IN IF r.isFinal THEN front \o r.transcript ELSE front

\* finalTranscript of the loop of onresult
RECURSIVE FinalTranscript(_)
FinalTranscript(batch) ==
    IF batch = << >> THEN << >>
    ELSE LET r == batch[Len(batch)]
             front == FinalTranscript(SubSeq(batch, 1, Len(batch) - 1))
         IN IF r.isFinal THEN front \o r.transcript \o <<" ">> ELSE front

\* interimTranscript of the loop of onresult
RECURSIVE InterimTranscript(_)
InterimTranscript(batch) ==
    IF batch = << >> THEN << >>
    ELSE LET r == batch[Len(batch)]
             front == InterimTranscript(SubSeq(batch, 1, Len(batch) - 1))
         IN IF r.isFinal THEN front ELSE front \o r.transcript

\* confidence || 0.8
ConfidenceOrDefault(c) == IF c = Undefined \/ c = 0 THEN DefaultConfidence ELSE c

\* localStorage holds a string or nothing
Absent == [kind |-> "absent"]
Garbage == [kind |-> "garbage"]
Stringify(t) == [kind |-> "json", value |-> t]

\* a record saved by an earlier visit
SavedRecord == [id |-> NumToString(0), text |-> <<"a">>, timestamp |-> 0,
                confidence |-> DefaultConfidence, lang |-> "en-US"]

StoredValues == {Absent, Garbage, Stringify(<< >>), Stringify(<<SavedRecord>>)}

\* a stored list whose element is not a transcription record
ForeignItem == [note |-> <<"a">>]

\* what localStorage may hold when the page opens
PersistedValues == StoredValues \cup {Stringify(<<ForeignItem>>)}

\* t.<field> of a stored element: undefined when the element has no such
\* property
Prop(t, f) == IF f \in DOMAIN t THEN t[f] ELSE Undefined

\* new Date(timestamp).toLocaleTimeString(): the time of day to the second
LocaleTimeString(timestamp) ==
    IF timestamp = Undefined THEN <<"Invalid Date">>
    ELSE NumToString(timestamp \div MsPerSecond)

\* `[${new Date(t.timestamp).toLocaleTimeString()} - ${t.lang}] ${t.text}`;
\* a property the element lacks reads "undefined"
Block(t) ==
    <<"[">> \o LocaleTimeString(Prop(t, "timestamp")) \o <<" - ">>
        \o (IF "lang" \in DOMAIN t THEN <<t.lang>> ELSE <<"undefined">>)
        \o <<"] ">>
        \o (IF "text" \in DOMAIN t THEN t.text ELSE <<"undefined">>)

\* blocks.join(''), without the blank line between two blocks
RECURSIVE Join_NoSeparator(_)
Join_NoSeparator(blocks) ==
    IF blocks = << >> THEN << >>
    ELSE blocks[1] \o Join_NoSeparator(Tail(blocks))

\* blocks.join('\n\n')
RECURSIVE Join(_)
Join(blocks) ==
    IF blocks = << >> THEN << >>
    ELSE IF Len(blocks) = 1 THEN blocks[1]
    ELSE blocks[1] \o <<"\n\n">> \o Join(Tail(blocks))

\* ------------------------------------------------------ the whole state
World ==
    [isRecording |-> isRecording, transcriptions |-> transcriptions,
     currentTranscript |-> currentTranscript, audioLevel |-> audioLevel,
     isSupported |-> isSupported, selectedLang |-> selectedLang,
     mediaRecorderRef |-> mediaRecorderRef, recognitionRef |-> recognitionRef,
     audioContextRef |-> audioContextRef, analyserRef |-> analyserRef,
     animationFrameRef |-> animationFrameRef, recognitions |-> recognitions,
     recorders |-> recorders, streams |-> streams, contexts |-> contexts,
     frames |-> frames, calls |-> calls, storage |-> storage, now |-> now,
     mounted |-> mounted, notice |-> notice, downloads |-> downloads]

\* the state a handler starts from: no toast is showing yet and nothing
\* has been offered for download
Fresh == [World EXCEPT !.notice = "none", !.downloads = << >>]

Commit(w) ==
    /\ isRecording' = w.isRecording
    /\ transcriptions' = w.transcriptions
    /\ currentTranscript' = w.currentTranscript
    /\ audioLevel' = w.audioLevel
    /\ isSupported' = w.isSupported
    /\ selectedLang' = w.selectedLang
    /\ mediaRecorderRef' = w.mediaRecorderRef
    /\ recognitionRef' = w.recognitionRef
    /\ audioContextRef' = w.audioContextRef
    /\ analyserRef' = w.analyserRef
    /\ animationFrameRef' = w.animationFrameRef
    /\ recognitions' = w.recognitions
    /\ recorders' = w.recorders
    /\ streams' = w.streams
    /\ contexts' = w.contexts
    /\ frames' = w.frames
    /\ calls' = w.calls
    /\ storage' = w.storage
    /\ now' = w.now
    /\ mounted' = w.mounted
    /\ notice' = w.notice
    /\ downloads' = w.downloads

\* ------------------------------------------------- the browser objects
\* SpeechRecognition.start() throws once started and until its end event
CanStart(w, i) == w.recognitions[i].st = "idle"

RecognitionStart(w, i) == [w EXCEPT !.recognitions[i].st = "running"]

\* SpeechRecognition.stop(): the engine may still return a result, then ends
RecognitionStop(w, i) ==
    IF w.recognitions[i].st = "running"
    THEN [w EXCEPT !.recognitions[i].st = "stopping"]
    ELSE w

\* AudioContext.close(): the state attribute turns 'closed' asynchronously (ContextClosed)
ContextClose(w, c) ==
    IF w.contexts[c] = "running" THEN [w EXCEPT !.contexts[c] = "closing"] ELSE w

\* cancelAnimationFrame(id)
CancelAnimationFrame(w, id) ==
    IF id \in w.frames
    THEN [w EXCEPT !.frames = @ \ {id}, !.animationFrameRef = Stale]
    ELSE w

\* mediaRecorder.stop(); mediaRecorder.stream.getTracks().forEach(stop)
StopRecorderAndTracks(w) ==
    IF w.mediaRecorderRef # 0 /\ w.recorders[w.mediaRecorderRef] = "recording"
    THEN [w EXCEPT !.recorders[w.mediaRecorderRef] = "inactive",
                   !.streams[w.mediaRecorderRef] = "stopped"]
    ELSE w

\* a save effect that never writes
SaveEffect_Never(w) == w

\* the save effect: runs after every render in which transcriptions changed
SaveEffect(w) == [w EXCEPT !.storage = Stringify(w.transcriptions)]

\* ------------------------------------------------------------- handlers
\* stopRecordingInternal
stopRecordingInternal(w) ==
    LET w1 == StopRecorderAndTracks(w)
        w2 == IF w1.recognitionRef # 0
              THEN RecognitionStop(w1, w1.recognitionRef) ELSE w1
        w3 == IF w2.audioContextRef # 0 /\ w2.contexts[w2.audioContextRef] # "closed"
              THEN ContextClose(w2, w2.audioContextRef) ELSE w2
        w4 == IF w3.animationFrameRef # 0
              THEN CancelAnimationFrame(w3, w3.animationFrameRef) ELSE w3
    IN [w4 EXCEPT !.isRecording = FALSE, !.audioLevel = 0,
                  !.currentTranscript = << >>]

\* updateLevel of loop n (the closure made by the n-th monitorAudioLevel)
updateLevel(w, n, sample) ==
    IF w.analyserRef = 0 \/ w.contexts[w.analyserRef] = "closed"
    THEN w
    ELSE [w EXCEPT !.audioLevel = sample, !.frames = @ \cup {n},
                   !.animationFrameRef = n]

\* monitorAudioLevel
monitorAudioLevel(w, n, sample) ==
    IF w.analyserRef = 0 THEN w ELSE updateLevel(w, n, sample)

\* the catch block of startRecording
startRecordingCatch(w, denied) ==
    stopRecordingInternal(
        [w EXCEPT !.notice = IF denied THEN "Microphone access denied"
                             ELSE "Failed to start recording"])

\* startRecording after `await getUserMedia`, for call n
startRecordingResume(w, n, outcome, sample) ==
    LET w0 == [w EXCEPT !.calls[n].pc = "done"]
        \* const stream = await navigator.mediaDevices.getUserMedia(...)
        w1 == [w0 EXCEPT !.streams[n] = "live"]
        \* audioContextRef.current = new AudioContext(); analyserRef.current = ...
        w2 == [w1 EXCEPT !.audioContextRef = n, !.contexts[n] = "running",
                         !.analyserRef = n]
        w3 == monitorAudioLevel(w2, n, sample)
        \* mediaRecorderRef.current = new MediaRecorder(stream)
        w4 == [w3 EXCEPT !.mediaRecorderRef = n, !.recorders[n] = "inactive"]
        \* mediaRecorderRef.current.start()
        w5 == [w4 EXCEPT !.recorders[n] = "recording"]
        r  == w5.recognitionRef
        \* recognitionRef.current.lang = selectedLang (of the calling render)
        w6 == IF r # 0
              THEN [w5 EXCEPT !.recognitions[r].lang = w.calls[n].selectedLang]
              ELSE w5
    IN CASE outcome = "denied" -> startRecordingCatch(w0, TRUE)
         [] outcome = "unavailable" -> startRecordingCatch(w0, FALSE)
         [] outcome = "ctxFail" -> startRecordingCatch(w1, FALSE)
         [] outcome = "recorderFail" -> startRecordingCatch(w3, FALSE)
         [] outcome = "recorderStartFail" -> startRecordingCatch(w4, FALSE)
         [] OTHER ->
              IF r # 0 /\ ~CanStart(w6, r)
              THEN startRecordingCatch(w6, FALSE)
              ELSE [(IF r # 0 THEN RecognitionStart(w6, r) ELSE w6)
                       EXCEPT !.isRecording = TRUE, !.notice = "Recording started"]

\* startRecording up to its await, as call n
startRecording(w, n) ==
    IF w.isRecording THEN w
    ELSE [w EXCEPT !.calls[n] = [pc |-> "awaiting", selectedLang |-> w.selectedLang]]

\* stopRecording without its `if (!isRecording) return`
stopRecording_NoGuard(w) ==
    [stopRecordingInternal(w) EXCEPT !.notice = "Recording stopped"]

\* stopRecording
stopRecording(w) ==
    IF ~w.isRecording THEN w
    ELSE [stopRecordingInternal(w) EXCEPT !.notice = "Recording stopped"]

\* the effect on [selectedLang]: the previous run's cleanup, then a new
\* recognition instance i whose handlers keep this render's values
selectedLangEffect(w, i) ==
    LET w1 == IF w.recognitionRef # 0
              THEN RecognitionStop(w, w.recognitionRef) ELSE w
        w2 == [w1 EXCEPT !.recognitions[i] =
                             [st |-> "idle", lang |-> w.selectedLang,
                              isRecording |-> w.isRecording,
                              selectedLang |-> w.selectedLang],
                         !.recognitionRef = i]
    IN IF w2.isRecording THEN RecognitionStart(w2, i) ELSE w2

\* handleLanguageChange without its setCurrentTranscript('')
handleLanguageChange_KeepInterim(w, langCode, i) ==
    LET w1 == [w EXCEPT !.selectedLang = langCode]
        w2 == IF w1.recognitionRef # 0
              THEN RecognitionStop(w1, w1.recognitionRef) ELSE w1
        w3 == StopRecorderAndTracks(w2)
        w4 == [w3 EXCEPT !.isRecording = FALSE, !.audioLevel = 0,
                         !.notice = "Language changed"]
        w5 == IF w.isRecording THEN w4 ELSE w1
    IN IF langCode # w.selectedLang THEN selectedLangEffect(w5, i) ELSE w5

\* handleLanguageChange and the re-render it causes; i is the next instance
handleLanguageChange(w, langCode, i) ==
    LET w1 == [w EXCEPT !.selectedLang = langCode]
        w2 == IF w1.recognitionRef # 0
              THEN RecognitionStop(w1, w1.recognitionRef) ELSE w1
        w3 == StopRecorderAndTracks(w2)
        w4 == [w3 EXCEPT !.isRecording = FALSE, !.audioLevel = 0,
                         !.currentTranscript = << >>,
                         !.notice = "Language changed"]
        w5 == IF w.isRecording THEN w4 ELSE w1
    IN IF langCode # w.selectedLang THEN selectedLangEffect(w5, i) ELSE w5

\* onresult with `setTranscriptions(prev => [...prev, newTranscription])`
onresult_Append(w, i, batch) ==
    LET finalTranscript == FinalTranscript(batch)
        interimTranscript == InterimTranscript(batch)
        newTranscription ==
            [id |-> NumToString(w.now),
             text |-> Trim(finalTranscript),
             timestamp |-> w.now,
             confidence |-> ConfidenceOrDefault(batch[Len(batch)].confidence),
             lang |-> w.recognitions[i].selectedLang]
    IN IF finalTranscript # << >>
       THEN SaveEffect([w EXCEPT !.transcriptions = @ \o <<newTranscription>>,
                                 !.currentTranscript = << >>])
       ELSE [w EXCEPT !.currentTranscript = interimTranscript]

\* onresult with `setCurrentTranscript(interimTranscript)` in both branches
onresult_InterimAlways(w, i, batch) ==
    LET finalTranscript == FinalTranscript(batch)
        interimTranscript == InterimTranscript(batch)
        newTranscription ==
            [id |-> NumToString(w.now),
             text |-> Trim(finalTranscript),
             timestamp |-> w.now,
             confidence |-> ConfidenceOrDefault(batch[Len(batch)].confidence),
             lang |-> w.recognitions[i].selectedLang]
    IN IF finalTranscript # << >>
       THEN SaveEffect([w EXCEPT !.transcriptions = <<newTranscription>> \o @,
                                 !.currentTranscript = interimTranscript])
       ELSE [w EXCEPT !.currentTranscript = interimTranscript]

\* recognition.onresult of instance i
onresult(w, i, batch) ==
    LET finalTranscript == FinalTranscript(batch)
        interimTranscript == InterimTranscript(batch)
        newTranscription ==
            [id |-> NumToString(w.now),
             text |-> Trim(finalTranscript),
             timestamp |-> w.now,
             confidence |-> ConfidenceOrDefault(batch[Len(batch)].confidence),
             lang |-> w.recognitions[i].selectedLang]
    IN IF finalTranscript # << >>
       THEN SaveEffect([w EXCEPT !.transcriptions = <<newTranscription>> \o @,
                                 !.currentTranscript = << >>])
       ELSE [w EXCEPT !.currentTranscript = interimTranscript]

\* recognition.onerror of instance i
onerror(w, i, kind) ==
    LET w1 == [w EXCEPT !.notice =
                   CASE kind = "not-allowed" -> "Microphone access denied"
                     [] kind = "language-not-supported" -> "Language not supported"
                     [] kind = "no-speech" -> "No speech detected"
                     [] OTHER -> "Speech recognition error"]
    IN IF w.recognitions[i].isRecording THEN stopRecordingInternal(w1) ELSE w1

\* recognition.onend of instance i
onend(w, i) ==
    LET rec == w.recognitions[i].isRecording
        r == w.recognitionRef
    IN IF rec /\ r # 0 /\ r # i THEN w
       ELSE IF rec /\ r # 0
            THEN (IF CanStart(w, r) THEN RecognitionStart(w, r) ELSE w)
            ELSE w

\* clearTranscriptions
clearTranscriptions(w) ==
    SaveEffect([w EXCEPT !.transcriptions = << >>,
                         !.notice = "Transcriptions cleared"])

\* downloadTranscriptions
downloadTranscriptions(w) ==
    IF Len(w.transcriptions) = 0
    THEN [w EXCEPT !.notice = "No transcriptions to download"]
    ELSE LET content == Join([k \in 1..Len(w.transcriptions) |->
                                 Block(w.transcriptions[k])])
         IN [w EXCEPT !.downloads = @ \o <<content>>,
                      !.notice = "Transcriptions downloaded"]

\* the three mount effects, in order, and the re-render after the load
mountEffects(w, supported) ==
    LET item == w.storage
        loads == item.kind = "json"
        \* load: JSON.parse throws on a corrupt value
        w1 == IF item.kind = "garbage"
              THEN [w EXCEPT !.notice = "Could not load saved transcriptions"]
              ELSE w
        \* save, with the first render's (empty) transcriptions
        w2 == SaveEffect(w1)
        w3 == IF supported THEN selectedLangEffect(w2, 1)
              ELSE [w2 EXCEPT !.isSupported = FALSE,
                              !.notice = "Speech recognition not supported"]
        \* the render with the loaded list, and its save
        w4 == IF loads THEN SaveEffect([w3 EXCEPT !.transcriptions = item.value])
              ELSE w3
    IN [w4 EXCEPT !.mounted = TRUE]

\* -------------------------------------------------------------- history
Hist(op, inst, td) ==
    /\ lastOp' = op
    /\ lastId' = inst
    /\ pre' = [isRecording |-> isRecording, interim |-> currentTranscript # << >>]
    /\ teardown' = td

HasFinal(batch) == \E k \in 1..Len(batch) : batch[k].isFinal

\* the next unused start call / recognition instance
FreeCalls == {n \in Starts : calls[n].pc = "unused"}
FreeInsts == {i \in Insts : recognitions[i].st = "none"}
Min(S) == CHOOSE x \in S : \A y \in S : x <= y

\* -------------------------------------------------------------- actions
\* the component as constructed, before its effects run, with `item` in
\* localStorage
InitialWorld(item) ==
    [isRecording |-> FALSE, transcriptions |-> << >>,
     currentTranscript |-> << >>, audioLevel |-> 0, isSupported |-> TRUE,
     selectedLang |-> "en-US", mediaRecorderRef |-> 0, recognitionRef |-> 0,
     audioContextRef |-> 0, analyserRef |-> 0, animationFrameRef |-> 0,
     recognitions |-> [i \in Insts |-> [st |-> "none", lang |-> "en-US",
                                         isRecording |-> FALSE,
                                         selectedLang |-> "en-US"]],
     recorders |-> [n \in Starts |-> "none"],
     streams |-> [n \in Starts |-> "none"],
     contexts |-> [n \in Starts |-> "none"],
     frames |-> {},
     calls |-> [n \in Starts |-> [pc |-> "unused", selectedLang |-> "en-US"]],
     storage |-> item, now |-> 1, mounted |-> FALSE, notice |-> "none",
     downloads |-> << >>]

\* the state is w
Holds(w) ==
    /\ isRecording = w.isRecording
    /\ transcriptions = w.transcriptions
    /\ currentTranscript = w.currentTranscript
    /\ audioLevel = w.audioLevel
    /\ isSupported = w.isSupported
    /\ selectedLang = w.selectedLang
    /\ mediaRecorderRef = w.mediaRecorderRef
    /\ recognitionRef = w.recognitionRef
    /\ audioContextRef = w.audioContextRef
    /\ analyserRef = w.analyserRef
    /\ animationFrameRef = w.animationFrameRef
    /\ recognitions = w.recognitions
    /\ recorders = w.recorders
    /\ streams = w.streams
    /\ contexts = w.contexts
    /\ frames = w.frames
    /\ calls = w.calls
    /\ storage = w.storage
    /\ now = w.now
    /\ mounted = w.mounted
    /\ notice = w.notice
    /\ downloads = w.downloads

InitWith(stored) ==
    /\ \E item \in stored : Holds(InitialWorld(item))
    /\ lastOp = "init"
    /\ lastId = 0
    /\ pre = [isRecording |-> FALSE, interim |-> FALSE]
    /\ teardown = "none"
    /\ baseLen = 0
    /\ finalBatches = 0
    /\ lastBatch = << >>

\* the first session: mounted, start() called and granted, recognition
\* running
FirstSession(item) ==
    startRecordingResume(
        startRecording(mountEffects(InitialWorld(item), TRUE), 1), 1, "ok", 0)

Mount ==
    /\ ~mounted
    /\ \E supported \in BOOLEAN : Commit(mountEffects(Fresh, supported))
    /\ Hist("mount", 0, "none")
    /\ baseLen' = Len(transcriptions')
    /\ finalBatches' = 0
    /\ lastBatch' = << >>

Ready == mounted /\ isSupported

StartRecording ==
    /\ Ready
    /\ isRecording \/ FreeCalls # {}
    /\ Commit(startRecording(Fresh, IF isRecording THEN 1 ELSE Min(FreeCalls)))
    /\ Hist("start", 0, IF isRecording THEN teardown ELSE "none")
    /\ lastBatch' = << >>
    /\ UNCHANGED <<baseLen, finalBatches>>

GetUserMedia(outcomes, samples) ==
    /\ \E n \in Starts, outcome \in outcomes, sample \in samples :
          /\ calls[n].pc = "awaiting"
          /\ Commit(startRecordingResume(Fresh, n, outcome, sample))
          /\ Hist("resume", n, "none")
    /\ lastBatch' = << >>
    /\ UNCHANGED <<baseLen, finalBatches>>

StopRecording ==
    /\ Ready
    /\ Commit(stopRecording(Fresh))
    /\ Hist("stop", 0, IF isRecording THEN "stop" ELSE teardown)
    /\ lastBatch' = << >>
    /\ UNCHANGED <<baseLen, finalBatches>>

\* the picker reports a change of its value: langCode is not the selected one
HandleLanguageChange(codes) ==
    /\ Ready
    /\ FreeInsts # {}
    /\ \E langCode \in codes \ {selectedLang} :
          Commit(handleLanguageChange(Fresh, langCode, Min(FreeInsts)))
    /\ Hist("setLanguage", 0, IF isRecording THEN "language" ELSE teardown)
    /\ lastBatch' = << >>
    /\ UNCHANGED <<baseLen, finalBatches>>

OnResult(batches, cap) ==
    /\ \E i \in Insts, batch \in batches :
          /\ recognitions[i].st \in {"running", "stopping"}
          /\ HasFinal(batch) => Len(transcriptions) < cap
          /\ Commit(onresult(Fresh, i, batch))
          /\ Hist("onresult", i, teardown)
          /\ finalBatches' = IF HasFinal(batch) THEN finalBatches + 1
                             ELSE finalBatches
          /\ lastBatch' = batch
    /\ UNCHANGED baseLen

OnError ==
    /\ \E i \in Insts, kind \in ErrorKinds :
          /\ recognitions[i].st \in {"running", "stopping"}
          /\ Commit(onerror([Fresh EXCEPT !.recognitions[i].st = "ending"], i, kind))
          /\ Hist("onerror", i, IF isRecording THEN "error" ELSE teardown)
    /\ lastBatch' = << >>
    /\ UNCHANGED <<baseLen, finalBatches>>

OnEnd ==
    /\ \E i \in Insts :
          /\ recognitions[i].st \in {"running", "stopping", "ending"}
          /\ Commit(onend([Fresh EXCEPT !.recognitions[i].st = "idle"], i))
          /\ Hist("onend", i, teardown)
    /\ lastBatch' = << >>
    /\ UNCHANGED <<baseLen, finalBatches>>

\* a requested animation frame of loop n fires
Frame ==
    /\ \E n \in frames, sample \in Samples :
          /\ Commit(updateLevel(
                 [Fresh EXCEPT !.frames = @ \ {n},
                               !.animationFrameRef = IF @ = n THEN Stale ELSE @],
                 n, sample))
          \* "frame" when the callback sampled the level, "frameEnd" when it
          \* found the graph closed and returned
          /\ Hist(IF n \in frames' THEN "frame" ELSE "frameEnd", n, teardown)
    /\ lastBatch' = << >>
    /\ UNCHANGED <<baseLen, finalBatches>>

\* a closing AudioContext reports state 'closed'
ContextClosed ==
    /\ \E c \in Starts :
          /\ contexts[c] = "closing"
          /\ Commit([Fresh EXCEPT !.contexts[c] = "closed"])
    /\ Hist("closed", 0, teardown)
    /\ lastBatch' = << >>
    /\ UNCHANGED <<baseLen, finalBatches>>

ClearTranscriptions ==
    /\ Ready
    /\ Commit(clearTranscriptions(Fresh))
    /\ Hist("clear", 0, teardown)
    /\ baseLen' = 0
    /\ finalBatches' = 0
    /\ lastBatch' = << >>

DownloadTranscriptions ==
    /\ Ready
    /\ Commit(downloadTranscriptions(Fresh))
    /\ Hist("export", 0, teardown)
    /\ lastBatch' = << >>
    /\ UNCHANGED <<baseLen, finalBatches>>

Tick ==
    /\ mounted
    /\ now < 1 + MaxClock
    /\ Commit([Fresh EXCEPT !.now = @ + 1])
    /\ Hist("tick", 0, teardown)
    /\ lastBatch' = << >>
    /\ UNCHANGED <<baseLen, finalBatches>>

Init == InitWith({Absent})

\* the session controller under every interleaving of its events
Next ==
    \/ Mount
    \/ StartRecording
    \/ GetUserMedia(Outcomes, Samples)
    \/ StopRecording
    \/ HandleLanguageChange(supportedLanguages)
    \/ OnResult(PlainBatches, MaxKept)
    \/ OnError
    \/ OnEnd
    \/ Frame
    \/ ContextClosed
    \/ ClearTranscriptions

Spec == Init /\ [][Next]_vars

\* the session controller where the platform never fails once the
\* microphone is granted (permission may still be denied)
NextGranted ==
    \/ Mount
    \/ StartRecording
    \/ GetUserMedia({"ok", "denied"}, Samples)
    \/ StopRecording
    \/ HandleLanguageChange(supportedLanguages)
    \/ OnResult(PlainBatches, MaxKept)
    \/ OnError
    \/ OnEnd
    \/ Frame
    \/ ContextClosed
    \/ ClearTranscriptions

SpecGranted == Init /\ [][NextGranted]_vars

\* the session controller where handleLanguageChange may be given any string
NextAnyCode ==
    \/ Mount
    \/ StartRecording
    \/ GetUserMedia({"ok", "denied"}, Samples)
    \/ StopRecording
    \/ HandleLanguageChange(LangCodes)
    \/ OnResult(PlainBatches, MaxKept)
    \/ OnError
    \/ OnEnd
    \/ Frame
    \/ ContextClosed
    \/ ClearTranscriptions

SpecAnyCode == Init /\ [][NextAnyCode]_vars

\* the transcript store under every result event of a session, from the
\* moment the session starts
InitStore ==
    /\ \E item \in StoredValues :
          /\ Holds(FirstSession(item))
          /\ baseLen = Len(FirstSession(item).transcriptions)
    /\ lastOp = "resume"
    /\ lastId = 1
    /\ pre = [isRecording |-> FALSE, interim |-> FALSE]
    /\ teardown = "none"
    /\ finalBatches = 0
    /\ lastBatch = << >>

NextStore ==
    \/ OnResult(TextBatches, MaxStore)
    \/ StopRecording
    \/ OnEnd
    \/ ClearTranscriptions

SpecStore == InitStore /\ [][NextStore]_vars

\* the life of the page from the moment it opens: the load, one session,
\* its result events as the clock runs, clear and export
InitPage == InitWith(PersistedValues)

NextPage ==
    \/ Mount
    \/ StartRecording
    \/ GetUserMedia({"ok"}, {0})
    \/ OnResult(ScoredBatches, MaxStore)
    \/ ClearTranscriptions
    \/ DownloadTranscriptions
    \/ Tick

SpecPage == InitPage /\ [][NextPage]_vars

\* React runs the mount effects once the first render is committed
SpecPageLive == SpecPage /\ WF_vars(Mount)

\* the first session's start is a state of Spec
FirstSessionReached ==
    /\ Holds(FirstSession(Absent))
    /\ lastOp = "resume"
    /\ baseLen = 0
    /\ finalBatches = 0

\* --------------------------------------------------------------- claims
LiveStreams == {n \in Starts : streams[n] = "live"}
Awaiting == {n \in Starts : calls[n].pc = "awaiting"}
Tracked(i) == recognitionRef = i

\* C1: a result event of a recognition instance that is no longer the
\* tracked one changes neither the Transcript Store nor the interim
\* transcript.
C1_SupersededResultIgnored ==
    [][(lastOp' = "onresult" /\ ~Tracked(lastId'))
          => (transcriptions' = transcriptions
              /\ currentTranscript' = currentTranscript)]_vars

\* C2: an engine error while Recording runs the stop teardown: afterwards
\* the state is Idle, the interim transcript empty and the audio level 0.
C2_ErrorTearsDown ==
    (lastOp = "onerror" /\ pre.isRecording)
        => (~isRecording /\ currentTranscript = << >> /\ audioLevel = 0)

\* C3: when the tracked session ends while Recording, recognition is
\* started again, so Recording never goes without a running session; the
\* end of a superseded session, or an end while Idle, starts nothing.
C3_EndRestarts ==
    /\ (lastOp = "onend" /\ isRecording /\ Tracked(lastId))
           => recognitions[lastId].st = "running"
    /\ (lastOp = "onend" /\ ~(isRecording /\ Tracked(lastId)))
           => recognitions[lastId].st = "idle"

\* C4: after a teardown (manual stop, error while recording, language
\* change while recording) no metering frame samples the level again
\* before the next start().
C4_MeteringCancelled == teardown # "none" => lastOp # "frame"

\* C5: the microphone is held by at most one session: under every
\* interleaving, a second start() during the permission prompt included, at
\* most one microphone stream is live, and an Idle controller with no start
\* in progress holds no live stream.
C5_ExclusiveMicrophone ==
    /\ Cardinality(LiveStreams) <= 1
    /\ (~isRecording /\ Awaiting = {}) => LiveStreams = {}

\* C6: a start() that fails leaves the controller Idle with everything that
\* start() acquired released: its stream stopped, its graph closed, its
\* metering loop cancelled.
StartFailed == lastOp = "resume" /\ notice # "Recording started"

C6_StartAllOrNothing ==
    StartFailed
        => /\ ~isRecording
           /\ streams[lastId] # "live"
           /\ contexts[lastId] # "running"
           /\ lastId \notin frames

\* C7: the store holds one record per result batch that had a final
\* segment (counted from the startup load or the last clear).
C7_OneRecordPerFinalBatch ==
    mounted => Len(transcriptions) = baseLen + finalBatches

C7_Witness ==
    /\ lastOp = "onresult"
    /\ finalBatches = 2
    /\ Len(transcriptions) = 2
    /\ transcriptions[1].text = << >>
    /\ transcriptions[2].text = <<"a", " ", " ", "a">>

\* C8: a commit puts the new record at index 0 and leaves the records
\* already stored as they were, in their order.
C8_NewestFirst ==
    [][lastOp' = "onresult"
          => \/ transcriptions' = transcriptions
             \/ /\ transcriptions' # << >>
                /\ Tail(transcriptions') = transcriptions]_vars

C8_Witness ==
    /\ lastOp = "onresult"
    /\ Len(transcriptions) = 3
    /\ transcriptions[1].text = <<"a", " ", " ", "a">>
    /\ transcriptions[2].text = <<"a">>
    /\ transcriptions[3].text = << >>

\* C9: setLanguage while Recording leaves the state Idle, the audio level 0
\* and the interim transcript empty, and starts no recognition.
C9_LanguageChangeStops ==
    (lastOp = "setLanguage" /\ pre.isRecording)
        => /\ ~isRecording
           /\ audioLevel = 0
           /\ currentTranscript = << >>
           /\ recognitions[recognitionRef].st = "idle"

C9_Witness ==
    /\ lastOp = "setLanguage"
    /\ pre.isRecording
    /\ pre.interim
    /\ selectedLang = "es-ES"

\* C10: stop() while Idle changes no state field and no resource.
C10_StopIdleNoOp ==
    [][(lastOp' = "stop" /\ ~isRecording)
          => UNCHANGED <<isRecording, currentTranscript, audioLevel,
                         selectedLang, transcriptions, mediaRecorderRef,
                         recognitionRef, audioContextRef, analyserRef,
                         animationFrameRef, recognitions, recorders, streams,
                         contexts, frames, calls, storage>>]_vars

C10_Witness ==
    /\ lastOp = "stop"
    /\ ~pre.isRecording
    /\ frames # {}
    /\ audioLevel # 0

\* C11: stop() while Recording does the whole teardown before it returns:
\* the state is Idle, the interim transcript empty and the audio level 0,
\* recognition has been asked to stop, the session's microphone stream is
\* stopped, its analysis graph is closing or closed, and no metering frame is
\* pending any more.
C11_StopTearsDown ==
    (lastOp = "stop" /\ pre.isRecording)
        => /\ ~isRecording
           /\ currentTranscript = << >>
           /\ audioLevel = 0
           /\ recognitions[recognitionRef].st # "running"
           /\ streams[mediaRecorderRef] = "stopped"
           /\ contexts[audioContextRef] # "running"
           /\ frames = {}

\* C12: after the startup load and after every mutation of the store (a
\* committed final utterance, a clear) durable storage comes to hold the
\* sequence held in memory, with no further event needed.
C12_StorageConverges ==
    (lastOp \in {"init", "mount", "onresult", "clear"})
        ~> (storage = Stringify(transcriptions))

C12_Witness ==
    /\ lastOp = "onresult"
    /\ HasFinal(lastBatch)
    /\ Len(transcriptions) = 2
    /\ storage = Stringify(transcriptions)

\* a stored element with the fields of a Transcription
IsRecord(t) == DOMAIN t = {"id", "text", "timestamp", "confidence", "lang"}

\* a persisted value that cannot be read as a list of records
Corrupt(item) ==
    \/ item.kind = "garbage"
    \/ /\ item.kind = "json"
       /\ \E k \in 1..Len(item.value) : ~IsRecord(item.value[k])

\* C13: the startup load leaves the store a (possibly empty) sequence of
\* records; from an absent, empty or corrupt persisted value (unparseable,
\* or parseable but not a list of records) the store starts empty; the
\* "could not load" notice is raised on corruption and only then.
C13_LoadLeavesRecords ==
    [][(lastOp' = "mount" /\ isSupported')
          => /\ \A k \in 1..Len(transcriptions') : IsRecord(transcriptions'[k])
             /\ (storage.kind # "json" \/ Corrupt(storage))
                    => transcriptions' = << >>
             /\ (notice' = "Could not load saved transcriptions")
                    <=> Corrupt(storage)]_vars

\* C14: a committed record carries the confidence reported for the last
\* alternative of the batch, a reported 0 included, and 0.8 when none was
\* reported.
C14_ConfidenceStored ==
    (lastOp = "onresult" /\ HasFinal(lastBatch))
        => LET c == lastBatch[Len(lastBatch)].confidence
           IN transcriptions[1].confidence =
                  IF c = Undefined THEN DefaultConfidence ELSE c

\* the blocks of an exported text: its parts between blank lines
RECURSIVE SplitBlocks(_)
SplitBlocks(content) ==
    LET seps == {k \in 1..Len(content) : content[k] = "\n\n"}
    IN IF seps = {} THEN <<content>>
       ELSE <<SubSeq(content, 1, Min(seps) - 1)>>
                \o SplitBlocks(SubSeq(content, Min(seps) + 1, Len(content)))

\* C15: export() on an empty store offers no file and raises a notice; on a
\* non-empty store it offers exactly one file, which holds one block per
\* record, in the order of the store.
C15_Export ==
    lastOp = "export"
        => IF transcriptions = << >>
           THEN downloads = << >> /\ notice = "No transcriptions to download"
           ELSE /\ Len(downloads) = 1
                /\ SplitBlocks(downloads[1]) =
                       [k \in 1..Len(transcriptions) |-> Block(transcriptions[k])]

C15_Witness ==
    /\ lastOp = "export"
    /\ Len(transcriptions) = 3
    /\ Len(downloads) = 1
    /\ IsRecord(transcriptions[1])
    /\ transcriptions[1].text = <<"a">>
    /\ transcriptions[2].text = << >>
    /\ transcriptions[3] = SavedRecord

\* C16: the selected language is always one of the supported languages, also
\* after setLanguage was called with a code that is not one of them.
C16_SelectedLanguageSupported == selectedLang \in supportedLanguages

IsFinalSegment(r) == r.isFinal
IsInterimSegment(r) == ~r.isFinal

\* the transcripts of the segments, with sep between two of them
RECURSIVE JoinTranscripts(_, _)
JoinTranscripts(segments, sep) ==
    IF segments = << >> THEN << >>
    ELSE IF Len(segments) = 1 THEN segments[1].transcript
    ELSE segments[1].transcript \o sep
             \o JoinTranscripts(Tail(segments), sep)

\* C17: a result batch with no final segment replaces the interim transcript
\* with the concatenation of its non-final segments and leaves the store as
\* it was; a batch with a final segment commits one record whose text is the
\* final segments joined by a space and trimmed, and empties the interim
\* transcript in the same update.
C17_ResultFrame ==
    [][lastOp' = "onresult"
          => IF HasFinal(lastBatch')
             THEN /\ transcriptions' # << >>
                  /\ Tail(transcriptions') = transcriptions
                  /\ transcriptions'[1].text =
                         Trim(JoinTranscripts(
                                  SelectSeq(lastBatch', IsFinalSegment), <<" ">>))
                  /\ currentTranscript' = << >>
             ELSE /\ transcriptions' = transcriptions
                  /\ currentTranscript' =
                         JoinTranscripts(
                             SelectSeq(lastBatch', IsInterimSegment), << >>)]_vars

\* a batch of a final and a non-final segment, received while an interim
\* transcript was showing
C17_Witness ==
    /\ lastOp = "onresult"
    /\ pre.interim
    /\ Len(lastBatch) = 2
    /\ lastBatch[1].isFinal
    /\ ~lastBatch[2].isFinal
    /\ lastBatch[2].transcript # << >>
    /\ currentTranscript = << >>
    /\ transcriptions # << >>
    /\ transcriptions[1].text = <<"a">>

\* C18: durable storage is written only by the save that follows a mutation
\* of the store (a commit, a clear): the startup load writes nothing, so the
\* persisted log is as it was found until the first mutation.
C18_WritesFollowMutations ==
    [][storage' # storage => lastOp' \in {"onresult", "clear"}]_vars

\* C19: when start() begins recognition the engine's language is the
\* selected language, and a committed record's language tag is the language
\* its engine was recognising in.
C19_EngineLanguageSelected ==
    /\ (lastOp = "resume" /\ isRecording)
           => recognitions[recognitionRef].lang = selectedLang
    /\ (lastOp = "onresult" /\ HasFinal(lastBatch))
           => transcriptions[1].lang = recognitions[lastId].lang

\* C20: no two records of the store have the same id.
C20_UniqueIds ==
    \A i, j \in 1..Len(transcriptions) :
        (i # j /\ IsRecord(transcriptions[i]) /\ IsRecord(transcriptions[j]))
            => transcriptions[i].id # transcriptions[j].id

\* C21: whenever the controller is Idle the interim transcript is empty and
\* the audio level is 0, also after a result event or a metering frame that
\* arrives after a stop, an error teardown or a language change.
C21_IdleIsQuiet ==
    ~isRecording => (currentTranscript = << >> /\ audioLevel = 0)

====
